---- MODULE Spec2Model ----
(***************************************************************************)
(* Model of the entity synchronisation engine of things-cloud-api:         *)
(* TodoItem with its synced snapshot (models/todo.py), the delta codec     *)
(* (_to_new / _to_edit / _commit / apply_edits) and ThingsClient           *)
(* (api/client.py: commit, update, _process_history and the views).        *)
(*                                                                         *)
(* Optional values are sequences of length <= 1: <<>> is Python's None    *)
(* and <<v>> a present value.  Dates are integers of the clock `now`;      *)
(* the nullable date fields of TodoItem hold NoDate for None.              *)
(***************************************************************************)
EXTENDS Integers, Sequences, FiniteSets, TLC

\* ---- bounds of the model ----
MaxClock == 2
MaxHead == 2
MaxBatch == 1
MaxCalls == 2
MaxLog == 3

\* ---- enumerations of models/todo.py ----
UpdateType_NEW == 0
UpdateType_EDIT == 1
UpdateType_DELETE == 2

TASK == 0
PROJECT == 1

INBOX == 0
ANYTIME == 1
SOMEDAY == 2

TODO == 0
CANCELLED == 2
COMPLETE == 3

TASK_6 == "Task6"
TAG_3 == "Tag3"
AREA_2 == "Area2"
CHECKLIST_ITEM_3 == "ChecklistItem3"

\* ---- value domains ----
ItemIds == {"X", "P"}
Titles == {"A", "B"}
AreaIds == {"R"}
StatusValues == {TODO, CANCELLED, COMPLETE}
NoDate == 0
TodayDate == 1

\* the fields of TodoApiObject / TodoDeltaApiObject that the model carries
SchemaKeys == {"title", "status", "destination", "modification_date",
               "scheduled_date", "completion_date", "trashed", "projects",
               "areas", "evening", "tags", "type"}

\* keys of TodoItem.model_dump(): the public fields and the computed fields;
\* the private attributes _projects, _areas and _evening are not dumped
DumpKeys == {"title", "modification_date", "scheduled_date",
             "completion_date", "trashed", "tags", "type", "status",
             "destination"}

\* fields of TodoItem whose value may be None
NullableKeys == {"scheduled_date", "completion_date"}

Some(v) == <<v>>
None == <<>>

\* ---- TodoItem ----
\* attribute `key` of a TodoItem as getattr(todo, key) reads it in _to_edit
ItemAttr(todo, key) ==
    CASE key = "title" -> todo.title
      [] key = "status" -> todo.status
      [] key = "destination" -> todo.destination
      [] key = "modification_date" -> todo.modification_date
      [] key = "scheduled_date" -> todo.scheduled_date
      [] key = "completion_date" -> todo.completion_date
      [] key = "trashed" -> todo.trashed
      [] key = "tags" -> todo.tags
      [] key = "type" -> todo.type

is_today(todo) == todo.destination = ANYTIME /\ todo.scheduled_date = TodayDate

is_evening(todo) == is_today(todo) /\ todo.evening

\* TodoItem(title=...): a fresh, never synced item
TodoItem(uuid, title, now) ==
    [uuid |-> uuid, title |-> title, status |-> TODO, destination |-> INBOX,
     modification_date |-> now, scheduled_date |-> NoDate,
     completion_date |-> NoDate, trashed |-> FALSE, projects |-> <<>>,
     areas |-> <<>>, evening |-> FALSE, tags |-> <<>>, type |-> TASK,
     aliasProjects |-> FALSE, aliasAreas |-> FALSE, synced |-> None]

\* the working values of the schema fields, as _to_new passes them
Working(todo) ==
    [title |-> todo.title, status |-> todo.status,
     destination |-> todo.destination,
     modification_date |-> todo.modification_date,
     scheduled_date |-> todo.scheduled_date,
     completion_date |-> todo.completion_date, trashed |-> todo.trashed,
     projects |-> todo.projects, areas |-> todo.areas,
     evening |-> is_evening(todo), tags |-> todo.tags, type |-> todo.type]

Ok(todo) == [err |-> "none", todo |-> todo]
Raise(e, todo) == [err |-> e, todo |-> todo]

\* ---- delta codec (TodoItem._to_new / _to_edit / _commit) ----
\* a TodoDeltaApiObject with every field None
NoDelta == [k \in SchemaKeys |-> None]

\* the value a delta field takes for a working value: None stays None
Wrap(key, v) == IF key \in NullableKeys /\ v = NoDate THEN None ELSE Some(v)

\* _to_new building the payload before the date is stamped
to_new_unstamped(todo, now) ==
    IF todo.synced # None
    THEN [err |-> "ValueError: current version exists", todo |-> todo,
          complete |-> None, delta |-> None]
    ELSE [err |-> "none", todo |-> [todo EXCEPT !.modification_date = now],
          complete |-> Some(Working(todo)), delta |-> None]

\* _to_new without its guard against an existing synced state
to_new_unguarded(todo, now) ==
    [err |-> "none", todo |-> [todo EXCEPT !.modification_date = now],
     complete |-> Some(Working([todo EXCEPT !.modification_date = now])),
     delta |-> None]

\* _commit of a TodoApiObject that does not keep it
commit_new_forgetful(todo, complete) == todo

\* the status setter closing an item without a completion date
status_set_undated(todo, status, now) ==
    IF todo.status = status
    THEN [err |-> "ValueError: item already has status", todo |-> todo]
    ELSE [err |-> "none",
          todo |-> [todo EXCEPT !.status = status,
                                !.completion_date = NoDate]]

\* the status setter leaving the completion date of a reopened item
status_set_keeping_date(todo, status, now) ==
    IF todo.status = status
    THEN [err |-> "ValueError: item already has status", todo |-> todo]
    ELSE [err |-> "none",
          todo |-> [todo EXCEPT !.status = status,
                                !.completion_date =
                                    IF status = TODO THEN @ ELSE now]]

\* TodoItem._to_new: stamps modification_date, then builds the full payload
to_new(todo, now) ==
    IF todo.synced # None
    THEN [err |-> "ValueError: current version exists", todo |-> todo,
          complete |-> None, delta |-> None]
    ELSE LET stamped == [todo EXCEPT !.modification_date = now]
         IN [err |-> "none", todo |-> stamped,
             complete |-> Some(Working(stamped)), delta |-> None]

\* the keys _to_edit finds changed: dumped keys whose value differs from synced
ChangedKeys(todo) ==
    {key \in DumpKeys : todo.synced[1][key] # ItemAttr(todo, key)}

\* TodoDeltaApiObject.model_validate(edits): absent fields default to None,
\* modification_date defaults to Util.now()
DeltaOfEdits(todo, keys, now) ==
    [k \in SchemaKeys |->
        IF k \in keys THEN Wrap(k, ItemAttr(todo, k))
        ELSE IF k = "modification_date" THEN Some(now)
        ELSE None]

\* TodoItem._to_edit
to_edit(todo, now) ==
    IF todo.synced = None
    THEN [err |-> "ValueError: no current version exists", todo |-> todo,
          complete |-> None, delta |-> None]
    ELSE IF ChangedKeys(todo) = {}
    THEN [err |-> "ValueError: no changes found", todo |-> todo,
          complete |-> None, delta |-> None]
    ELSE [err |-> "none", todo |-> todo, complete |-> None,
          delta |-> Some(DeltaOfEdits(todo, ChangedKeys(todo), now))]

\* TodoItem.to_update: a create when never synced, an edit otherwise
to_update(todo, now) ==
    IF todo.synced = None
    THEN [enc |-> to_new(todo, now), type |-> UpdateType_NEW]
    ELSE [enc |-> to_edit(todo, now), type |-> UpdateType_EDIT]

\* keys of delta.model_dump(exclude_none=True)
DeltaKeys(delta) == {k \in SchemaKeys : delta[k] # None}

\* TodoItem._commit with a TodoApiObject: the synced state is replaced
commit_new(todo, complete) == [todo EXCEPT !.synced = Some(complete)]

\* TodoItem._commit with a delta: its non-None fields are set on the synced
\* state; a list set there is a new object, no longer shared with the item
commit_delta(todo, delta) ==
    [todo EXCEPT
      !.synced = Some([k \in SchemaKeys |->
                        IF delta[k] # None THEN delta[k][1]
                        ELSE todo.synced[1][k]]),
      !.aliasProjects = @ /\ delta["projects"] = None,
      !.aliasAreas = @ /\ delta["areas"] = None]

\* wire form of a body (to_api_payload): the keys present in p and their
\* values (None is JSON null); an edit is dumped with exclude_none=True
WireOfNew(complete) ==
    [keys |-> SchemaKeys,
     vals |-> [k \in SchemaKeys |-> Wrap(k, complete[k])]]

WireOfEdit(delta) == [keys |-> DeltaKeys(delta), vals |-> delta]

\* ---- mutation entry points of TodoItem ----
\* list.clear() on _projects / _areas: a list shared with the synced state
\* (see to_todo) is emptied there as well
clear_projects(todo) ==
    [todo EXCEPT !.projects = <<>>,
                 !.synced = IF todo.aliasProjects /\ todo.synced # None
                            THEN Some([todo.synced[1] EXCEPT !.projects = <<>>])
                            ELSE @]

clear_areas(todo) ==
    [todo EXCEPT !.areas = <<>>,
                 !.synced = IF todo.aliasAreas /\ todo.synced # None
                            THEN Some([todo.synced[1] EXCEPT !.areas = <<>>])
                            ELSE @]

\* destination setter
destination_set(todo, destination) ==
    IF todo.type # TASK
    THEN Raise("ValueError: destination can only be changed for a task", todo)
    ELSE Ok([todo EXCEPT !.destination = destination])

\* the tail shared by both parent setters: move out of inbox
move_out_of_inbox(todo) ==
    IF todo.destination = INBOX THEN destination_set(todo, ANYTIME)
    ELSE Ok(todo)

\* the project setter leaving the area of the item
project_set_keeping_area(todo, project) ==
    IF project = None THEN Ok(clear_projects(todo))
    ELSE IF todo.uuid = project[1]
    THEN Raise("ValueError: cannot assign self as project", todo)
    ELSE move_out_of_inbox([todo EXCEPT !.projects = <<project[1]>>,
                                        !.aliasProjects = FALSE])

\* the project setter without its check against the item's own id
project_set_unguarded(todo, project) ==
    IF project = None THEN Ok(clear_projects(todo))
    ELSE LET assigned == [todo EXCEPT !.projects = <<project[1]>>,
                                      !.aliasProjects = FALSE]
             cleared == IF assigned.areas # <<>> THEN clear_areas(assigned)
                        ELSE assigned
         IN move_out_of_inbox(cleared)

\* project setter with a uuid string or None (project is an optional value)
project_set(todo, project) ==
    IF project = None THEN Ok(clear_projects(todo))
    ELSE IF todo.uuid = project[1]
    THEN Raise("ValueError: cannot assign self as project", todo)
    ELSE LET assigned == [todo EXCEPT !.projects = <<project[1]>>,
                                      !.aliasProjects = FALSE]
             cleared == IF assigned.areas # <<>> THEN clear_areas(assigned)
                        ELSE assigned
         IN move_out_of_inbox(cleared)

\* project setter with a TodoItem object
project_set_item(todo, project) ==
    IF project.type # PROJECT
    THEN Raise("ValueError: argument must be a project", todo)
    ELSE project_set(todo, Some(project.uuid))

\* area setter
area_set(todo, area) ==
    IF area = None THEN Ok(clear_areas(todo))
    ELSE LET assigned == [todo EXCEPT !.areas = <<area[1]>>,
                                      !.aliasAreas = FALSE]
             cleared == IF assigned.projects # <<>> THEN clear_projects(assigned)
                        ELSE assigned
         IN move_out_of_inbox(cleared)

\* status setter (todo(), complete() and cancel() assign through it)
status_set(todo, status, now) ==
    IF todo.status = status
    THEN Raise("ValueError: item already has status", todo)
    ELSE Ok([todo EXCEPT !.status = status,
                         !.completion_date =
                             IF status = TODO THEN NoDate ELSE now])

delete(todo) ==
    IF todo.trashed THEN Raise("ValueError: item is already trashed", todo)
    ELSE Ok([todo EXCEPT !.trashed = TRUE])

restore(todo) ==
    IF ~todo.trashed THEN Raise("ValueError: item is not trashed", todo)
    ELSE Ok([todo EXCEPT !.trashed = FALSE])

\* instance_creation_paused, which as_project also sets, is not among the
\* fields the model carries
as_project(todo) ==
    IF todo.type # TASK
    THEN Raise("ValueError: only a task can be converted to project", todo)
    ELSE Ok([todo EXCEPT !.type = PROJECT,
                         !.destination = IF @ = INBOX THEN ANYTIME ELSE @])

\* TodoItem.today
today(todo) ==
    LET moved == destination_set(todo, ANYTIME)
    IN IF moved.err # "none" THEN moved
       ELSE Ok([moved.todo EXCEPT !.scheduled_date = TodayDate])

\* TodoItem.evening
evening(todo) ==
    LET scheduled == today(todo)
    IN IF scheduled.err # "none" THEN scheduled
       ELSE Ok([scheduled.todo EXCEPT !.evening = TRUE])

\* TodoItem.someday
someday(todo) == destination_set(todo, SOMEDAY)

\* ---- the scheduling helper of the MCP server ----
\* the day after today, as a day number
TomorrowDate == 2

\* str.lower() on the strings the model hands to the server's tools
Lower(str) ==
    CASE str = "Someday" -> "someday"
      [] str = "Work" -> "work"
      [] str = "WORK" -> "work"
      [] str = "Personal" -> "personal"
      [] OTHER -> str

\* the 'when' arguments: the six keywords, one of them capitalised, a date
\* in YYYY-MM-DD form and a string that is neither
WhenValues ==
    {"today", "tomorrow", "evening", "someday", "Someday", "inbox", "anytime",
     "2026-11-05", "never"}

\* datetime.strptime(when_lower, "%Y-%m-%d"): the day, or None for a
\* ValueError
ParseDate(str) == IF str = "2026-11-05" THEN Some(TomorrowDate) ELSE None

\* _apply_when(task, when): today and evening go through the methods of the
\* item, the other values assign _destination and scheduled_date directly
apply_when(todo, when) ==
    LET when_lower == Lower(when)
        direct(destination, date) ==
            Ok([todo EXCEPT !.destination = destination,
                            !.scheduled_date = date])
    IN CASE when_lower = "today" -> today(todo)
         [] when_lower = "tomorrow" -> direct(ANYTIME, TomorrowDate)
         [] when_lower = "evening" -> evening(todo)
         [] when_lower = "someday" -> direct(SOMEDAY, NoDate)
         [] when_lower = "inbox" -> direct(INBOX, NoDate)
         [] when_lower = "anytime" -> direct(ANYTIME, NoDate)
         [] OTHER ->
              IF ParseDate(when_lower) # None
              THEN direct(ANYTIME, ParseDate(when_lower)[1])
              ELSE Raise("ValueError: Invalid 'when' value", todo)

\* ---- history application ----
\* to_todo whose item keeps the uuid its constructor drew
to_todo_own_uuid(complete, uuid, now) ==
    [uuid |-> "fresh", title |-> complete.title, status |-> complete.status,
     destination |-> complete.destination,
     modification_date |-> IF complete.modification_date = NoDate THEN now
                           ELSE complete.modification_date,
     scheduled_date |-> complete.scheduled_date,
     completion_date |-> complete.completion_date,
     trashed |-> complete.trashed, projects |-> complete.projects,
     areas |-> complete.areas, evening |-> complete.evening,
     tags |-> complete.tags, type |-> complete.type,
     aliasProjects |-> TRUE, aliasAreas |-> TRUE, synced |-> Some(complete)]

\* TodoApiObject.to_todo: the item built from a Create payload; its list
\* attributes are the payload's own list objects and the payload becomes the
\* synced state
to_todo(complete, uuid, now) ==
    [uuid |-> uuid, title |-> complete.title, status |-> complete.status,
     destination |-> complete.destination,
     modification_date |-> IF complete.modification_date = NoDate THEN now
                           ELSE complete.modification_date,
     scheduled_date |-> complete.scheduled_date,
     completion_date |-> complete.completion_date,
     trashed |-> complete.trashed, projects |-> complete.projects,
     areas |-> complete.areas, evening |-> complete.evening,
     tags |-> complete.tags, type |-> complete.type, aliasProjects |-> TRUE, aliasAreas |-> TRUE,
     synced |-> Some(complete)]

\* field order of TodoDeltaApiObject, the order apply_edits walks the keys in
KeyOrder == <<"title", "status", "destination", "modification_date",
              "scheduled_date", "completion_date", "trashed", "projects",
              "areas", "evening", "tags", "type">>

\* TodoDeltaApiObject.model_validate(p) of a wire payload: an absent
\* modification_date is filled by default_factory=Util.now
ParseDelta(wire, now) ==
    [k \in SchemaKeys |->
        IF k \in wire.keys THEN wire.vals[k]
        ELSE IF k = "modification_date" THEN Some(now)
        ELSE None]

\* one iteration of the loop of apply_edits: getattr, compare, setattr
apply_key(todo, key, new_value, now) ==
    CASE key \in {"projects", "areas"} ->
           \* TodoItem has no attribute of that name: getattr raises
           Raise("AttributeError", todo)
      [] key = "evening" ->
           \* getattr yields the bound method evening, never equal to a
           \* value; setattr of a name that is no field fails validation
           Raise("ValidationError", todo)
      [] key = "type" ->
           IF todo.type = new_value
           THEN Raise("ValueError: old and new value are identical", todo)
           ELSE Raise("AttributeError", todo)
      [] key = "status" ->
           IF todo.status = new_value
           THEN Raise("ValueError: old and new value are identical", todo)
           ELSE status_set(todo, new_value, now)
      [] key = "destination" ->
           IF todo.destination = new_value
           THEN Raise("ValueError: old and new value are identical", todo)
           ELSE destination_set(todo, new_value)
      [] OTHER ->
           IF ItemAttr(todo, key) = new_value
           THEN Raise("ValueError: old and new value are identical", todo)
           ELSE Ok(CASE key = "title" -> [todo EXCEPT !.title = new_value]
                     [] key = "modification_date" ->
                          [todo EXCEPT !.modification_date = new_value]
                     [] key = "scheduled_date" ->
                          [todo EXCEPT !.scheduled_date = new_value]
                     [] key = "completion_date" ->
                          [todo EXCEPT !.completion_date = new_value]
                     [] key = "trashed" -> [todo EXCEPT !.trashed = new_value]
                     [] key = "tags" -> [todo EXCEPT !.tags = new_value])

RECURSIVE apply_from(_, _, _, _)
apply_from(delta, todo, i, now) ==
    IF i > Len(KeyOrder) THEN Ok(todo)
    ELSE IF delta[KeyOrder[i]] = None THEN apply_from(delta, todo, i + 1, now)
    ELSE LET step == apply_key(todo, KeyOrder[i], delta[KeyOrder[i]][1], now)
         IN IF step.err # "none" THEN step
            ELSE apply_from(delta, step.todo, i + 1, now)

\* TodoDeltaApiObject.apply_edits
apply_edits(delta, todo, now) ==
    IF DeltaKeys(delta) = {}
    THEN Raise("RuntimeError: there are no edits to apply", todo)
    ELSE apply_from(delta, todo, 1, now)

\* TagItem.from_api for a Tag3 Create; pos is the place the tag gets in the
\* tag store
TagItem(uuid, title) == [uuid |-> uuid, title |-> title, pos |-> 0]

\* self._tags[tag.uuid] = tag: a key the dict holds keeps its place, a new
\* one goes to the end
put_tag(tgs, tag) ==
    [tgs EXCEPT ![tag.uuid] =
        Some([tag EXCEPT !.pos =
                IF tgs[tag.uuid] # None THEN tgs[tag.uuid][1].pos
                ELSE Cardinality({id \in DOMAIN tgs : tgs[id] # None})])]

\* _process_history skipping an edit of an id it does not hold
process_update_lenient(st, upd, now) ==
    CASE upd.type = UpdateType_NEW ->
           IF upd.entity = TAG_3
           THEN [st EXCEPT !.tags =
                    put_tag(@, TagItem(upd.id, upd.complete[1].title))]
           ELSE [st EXCEPT !.items[upd.id] =
                               Some(to_todo(upd.complete[1], upd.id, now))]
      [] upd.type = UpdateType_EDIT ->
           IF st.items[upd.id] = None \/ upd.entity # TASK_6 THEN st
           ELSE LET res == apply_edits(ParseDelta(upd.wire[1], now),
                                       st.items[upd.id][1], now)
                IN [st EXCEPT !.items[upd.id] = Some(res.todo),
                              !.err = res.err]
      [] OTHER -> st

\* one iteration of the loop of ThingsClient._process_history; st carries the
\* two stores, the error raised so far and the position of the last update
\* processed
process_update(st, upd, now) ==
    CASE upd.type = UpdateType_NEW ->
           IF upd.entity = TAG_3
           THEN [st EXCEPT !.tags =
                    put_tag(@, TagItem(upd.id, upd.complete[1].title))]
           ELSE IF upd.entity # TASK_6
           THEN [st EXCEPT !.err = "AttributeError"]
           ELSE [st EXCEPT !.items[upd.id] =
                               Some(to_todo(upd.complete[1], upd.id, now))]
      [] upd.type = UpdateType_EDIT ->
           IF st.items[upd.id] = None
           THEN [st EXCEPT !.err = "ValueError: todo not found"]
           ELSE IF upd.entity # TASK_6
           THEN [st EXCEPT !.err = "AttributeError"]
           ELSE LET res == apply_edits(ParseDelta(upd.wire[1], now),
                                       st.items[upd.id][1], now)
                IN [st EXCEPT !.items[upd.id] = Some(res.todo),
                              !.err = res.err]
      [] OTHER -> st

\* the loop of _process_history walking the updates from the last one
RECURSIVE process_from_reversed(_, _, _, _)
process_from_reversed(st, updates, i, now) ==
    IF i > Len(updates) \/ st.err # "none" THEN st
    ELSE process_from_reversed(
             [process_update(st, updates[Len(updates) + 1 - i], now)
                 EXCEPT !.at = i],
             updates, i + 1, now)

RECURSIVE process_from(_, _, _, _)
process_from(st, updates, i, now) ==
    IF i > Len(updates) \/ st.err # "none" THEN st
    ELSE process_from([process_update(st, updates[i], now) EXCEPT !.at = i],
                      updates, i + 1, now)

\* ThingsClient._process_history
process_history(its, tgs, updates, now) ==
    process_from([items |-> its, tags |-> tgs, err |-> "none", at |-> 0],
                 updates, 1, now)

\* ---- operations the remote log can hold ----
TagIds == {"W"}
AllIds == ItemIds \cup TagIds

\* a complete Task6 payload with default values
ApiObject(title, type, md, projects) ==
    [title |-> title, status |-> TODO,
     destination |-> IF type = TASK /\ projects = <<>> THEN INBOX ELSE ANYTIME,
     modification_date |-> md, scheduled_date |-> NoDate,
     completion_date |-> NoDate, trashed |-> FALSE, projects |-> projects,
     areas |-> <<>>, evening |-> FALSE, tags |-> <<>>, type |-> type]

\* a Tag3 payload
TagApiObject(title) == [title |-> title]

NewUpdate(id, entity, complete) ==
    [id |-> id, type |-> UpdateType_NEW, entity |-> entity,
     complete |-> Some(complete), wire |-> None]

EditUpdate(id, entity, keys, vals) ==
    [id |-> id, type |-> UpdateType_EDIT, entity |-> entity,
     complete |-> None, wire |-> Some([keys |-> keys, vals |-> vals])]

DeleteUpdate(id, entity) ==
    [id |-> id, type |-> UpdateType_DELETE, entity |-> entity,
     complete |-> None, wire |-> None]

\* operations on the task X that another writer appends to the log
TaskCreates ==
    {NewUpdate("X", TASK_6, ApiObject("A", TASK, 1, <<>>)),
     NewUpdate("X", TASK_6, ApiObject("A", TASK, 1, <<"P">>)),
     NewUpdate("X", TASK_6, ApiObject("B", TASK, NoDate, <<"P">>))}

TaskEdits ==
    {EditUpdate("X", TASK_6, {"title"}, [NoDelta EXCEPT !.title = Some("B")]),
     EditUpdate("X", TASK_6, {"title", "modification_date"},
                [NoDelta EXCEPT !.title = Some("A"),
                                !.modification_date = Some(2)]),
     EditUpdate("X", TASK_6, {"trashed"},
                [NoDelta EXCEPT !.trashed = Some(TRUE)]),
     EditUpdate("X", TASK_6, {"status"},
                [NoDelta EXCEPT !.status = Some(COMPLETE)]),
     EditUpdate("X", TASK_6, {"projects"},
                [NoDelta EXCEPT !.projects = Some(<<"P">>)]),
     EditUpdate("X", TASK_6, {"modification_date"}, NoDelta),
     EditUpdate("P", TASK_6, {"title"}, [NoDelta EXCEPT !.title = Some("B")])}

TaskDeletes == {DeleteUpdate("X", TASK_6)}

TaskUpdates == TaskCreates \cup TaskEdits \cup TaskDeletes

\* a create of X and two edits of its title, the second without a date
OrderUpdates ==
    {NewUpdate("X", TASK_6, ApiObject("B", TASK, NoDate, <<>>)),
     EditUpdate("X", TASK_6, {"title", "modification_date"},
                [NoDelta EXCEPT !.title = Some("A"),
                                !.modification_date = Some(2)]),
     EditUpdate("X", TASK_6, {"title"}, [NoDelta EXCEPT !.title = Some("B")])}

\* operations of another writer that reach a client which also commits
SyncUpdates ==
    {NewUpdate("X", TASK_6, ApiObject("A", TASK, 1, <<>>)),
     EditUpdate("X", TASK_6, {"title"}, [NoDelta EXCEPT !.title = Some("B")])}

\* head indices a session can start at
SessionHeads == {0, 1}

\* Creates of the other kinds as another writer's client logs them: a tag,
\* an area and a checklist item of the task X, each with its raw payload;
\* and an Edit that renames the tag
KindUpdates ==
    {NewUpdate("W", TAG_3, TagApiObject("A")),
     EditUpdate("W", TAG_3, {"title"}, [NoDelta EXCEPT !.title = Some("B")]),
     NewUpdate("W", TAG_3, TagApiObject("B")),
     NewUpdate("R", AREA_2, [tt |-> "A", ix |-> 0, tg |-> <<>>]),
     NewUpdate("K", CHECKLIST_ITEM_3,
               [tt |-> "A", ss |-> 0, ix |-> 0, cd |-> 1, md |-> 1,
                ts |-> <<"X">>])}

\* two tags, whose titles may differ in case only, the task X created with
\* one of them or both, and X trashed
TagUpdates ==
    {NewUpdate("W", TAG_3, TagApiObject("Work")),
     NewUpdate("P", TAG_3, TagApiObject("work")),
     NewUpdate("P", TAG_3, TagApiObject("Personal")),
     NewUpdate("X", TASK_6, [ApiObject("A", TASK, 1, <<>>)
                               EXCEPT !.tags = <<"W">>]),
     NewUpdate("X", TASK_6, [ApiObject("A", TASK, 1, <<>>)
                               EXCEPT !.tags = <<"P">>]),
     NewUpdate("X", TASK_6, [ApiObject("A", TASK, 1, <<>>)
                               EXCEPT !.tags = <<"P", "W">>]),
     EditUpdate("X", TASK_6, {"trashed", "modification_date"},
                [NoDelta EXCEPT !.trashed = Some(TRUE),
                                !.modification_date = Some(2)])}

\* Creates of X as the log of another client can hold them: a task, and a
\* project whose destination is Inbox
InboxCreates ==
    {NewUpdate("X", TASK_6, ApiObject("A", TASK, 1, <<>>)),
     NewUpdate("X", TASK_6, [ApiObject("A", PROJECT, 1, <<>>)
                               EXCEPT !.destination = INBOX])}

\* the titles asked for
TagQueries == {"Work", "work", "WORK", "Personal", "Errands"}

\* ---- the updates of tags, areas and checklist items ----
\* TagItem(title=..., parent=...) as a local object
LocalTag(uuid, title, parent) ==
    [uuid |-> uuid, title |-> title, parent |-> parent, short_name |-> ""]

\* AreaItem(title=...)
LocalArea(uuid, title) == [uuid |-> uuid, title |-> title, tags |-> <<>>]

\* ChecklistItem(title=..., task_uuid=...)
LocalChecklistItem(uuid, title, task_uuid) ==
    [uuid |-> uuid, title |-> title, task_uuid |-> task_uuid,
     status |-> 0, index |-> 0]

\* payload.model_dump(by_alias=True) of the three payload classes
DumpByAlias(entity, api_obj) ==
    CASE entity = TAG_3 ->
           [tt |-> api_obj.title, pn |-> api_obj.parent,
            sn |-> api_obj.short_name, ix |-> api_obj.index]
      [] entity = AREA_2 ->
           [tt |-> api_obj.title, ix |-> api_obj.index, tg |-> api_obj.tags]
      [] OTHER ->
           [tt |-> api_obj.title, ss |-> api_obj.status, ix |-> api_obj.index,
            cd |-> api_obj.creation_date, md |-> api_obj.modification_date,
            ts |-> api_obj.task_uuids]

\* NewBody(payload=..., entity=...): the validator keeps a Task6 payload and
\* replaces the payload object of another kind by its dump under wire names
NewBody(payload, entity) ==
    [type |-> UpdateType_NEW,
     payload |-> IF entity = TASK_6 THEN payload
                 ELSE DumpByAlias(entity, payload),
     entity |-> entity]

\* NewBody.to_api_payload writing the default entity
NewBody_to_api_payload_default_entity(body) ==
    [t |-> body.type, p |-> body.payload, e |-> TASK_6]

\* NewBody.to_api_payload
NewBody_to_api_payload(body) ==
    [t |-> body.type, p |-> body.payload, e |-> body.entity]

\* Update.to_api_payload: the mapping with the id as its only key
Update_to_api_payload(update) ==
    [id \in {update.id} |-> NewBody_to_api_payload(update.body)]

\* TagItem.to_update
TagItem_to_update(tag) ==
    [id |-> tag.uuid,
     body |-> NewBody([title |-> tag.title, parent |-> tag.parent,
                       short_name |-> tag.short_name, index |-> 0], TAG_3)]

\* AreaItem.to_update
AreaItem_to_update(area) ==
    [id |-> area.uuid,
     body |-> NewBody([title |-> area.title, index |-> 0,
                       tags |-> area.tags], AREA_2)]

\* ChecklistItem.to_update
ChecklistItem_to_update(item, now) ==
    [id |-> item.uuid,
     body |-> NewBody([title |-> item.title, status |-> item.status,
                       index |-> item.index, creation_date |-> now,
                       modification_date |-> now,
                       task_uuids |-> <<item.task_uuid>>],
                      CHECKLIST_ITEM_3)]

\* ---- state ----
VARIABLES
    items,      \* ThingsClient._items: id -> optional TodoItem
    tags,       \* ThingsClient._tags: id -> optional TagItem
    offset,     \* ThingsClient._offset, the cursor
    serverHead, \* head index of the remote log
    now,        \* the value Util.now() returns
    calls,      \* number of mutation calls made on stored items
    justCreated, \* ids whose synced state a create commit set, unchanged since
    last        \* the call made by the last step and its outcome

vars == <<items, tags, offset, serverHead, now, calls, justCreated, last>>

\* op, id: the call and the item it was made on (arg: the value handed to
\* the status setter); err: the error it raised
\* and cause the exception it was raised from; sent: the request a commit
\* sent; start, n: the start-index an update fetched from and the length of
\* the batch it got; at, applied: the position and the operation at which
\* _process_history ended; out: the result a query tool returned, or the
\* requests a creating tool sent, each with the head index it was answered
Call(op, id, err, sent) ==
    [op |-> op, id |-> id, arg |-> None, err |-> err, cause |-> None,
     sent |-> sent, start |-> None, n |-> 0, at |-> 0, applied |-> None,
     out |-> None]

\* __commit sending a fixed ancestor-index
Request_no_ancestor(type, ancestor, wire) ==
    [type |-> type, ancestor |-> 0, wire |-> wire]

\* a request body as sent by __commit, with its ancestor-index
Request(type, ancestor, wire) ==
    [type |-> type, ancestor |-> ancestor, wire |-> wire]

\* ThingsClient.__init__ in a session whose head index is head_index: empty
\* stores, the cursor at the head
Session(head_index) ==
    /\ items = [id \in AllIds |-> None]
    /\ tags = [id \in AllIds |-> None]
    /\ offset = head_index
    /\ serverHead = head_index
    /\ now = 1
    /\ calls = 0
    /\ justCreated = {}
    /\ last = Call("init", "", "none", None)

Init == Session(0)

\* time passes
Tick ==
    /\ now < MaxClock
    /\ now' = now + 1
    /\ last' = Call("tick", "", "none", None)
    /\ UNCHANGED <<calls, justCreated, items, tags, offset, serverHead>>

\* a mutation entry point called on a stored item: the item keeps whatever
\* the call changed before it returned or raised
MutateWith(op, id, arg, res) ==
    /\ calls < MaxCalls
    /\ calls' = calls + 1
    /\ justCreated' = justCreated \ {id}
    /\ items' = [items EXCEPT ![id] = Some(res.todo)]
    /\ last' = [Call(op, id, res.err, None) EXCEPT !.arg = arg]
    /\ UNCHANGED <<tags, offset, serverHead, now>>

Mutate(op, id, res) == MutateWith(op, id, None, res)

\* TodoItem(title=...) stored under its fresh uuid
NewItem(id, title) ==
    /\ items[id] = None
    /\ items' = [items EXCEPT ![id] = Some(TodoItem(id, title, now))]
    /\ last' = Call("new", id, "none", None)
    /\ UNCHANGED <<calls, justCreated, tags, offset, serverHead, now>>

SetTitle(id, title) ==
    /\ items[id] # None
    /\ Mutate("title", id, Ok([items[id][1] EXCEPT !.title = title]))

SetScheduledDate(id, date) ==
    /\ items[id] # None
    /\ Mutate("scheduled_date", id,
              Ok([items[id][1] EXCEPT !.scheduled_date = date]))

SetStatus(id, status) ==
    /\ items[id] # None
    /\ MutateWith("status", id, Some(status),
                  status_set(items[id][1], status, now))

SetDestination(id, destination) ==
    /\ items[id] # None
    /\ Mutate("destination", id, destination_set(items[id][1], destination))

SetProject(id, project) ==
    /\ items[id] # None
    /\ Mutate("project", id, project_set(items[id][1], project))

\* the project setter called with a TodoItem object
SetProjectItem(id, project) ==
    /\ items[id] # None
    /\ Mutate("project", id, project_set_item(items[id][1], project))

SetArea(id, area) ==
    /\ items[id] # None
    /\ Mutate("area", id, area_set(items[id][1], area))

Delete(id) ==
    /\ items[id] # None
    /\ Mutate("delete", id, delete(items[id][1]))

Restore(id) ==
    /\ items[id] # None
    /\ Mutate("restore", id, restore(items[id][1]))

AsProject(id) ==
    /\ items[id] # None
    /\ Mutate("as_project", id, as_project(items[id][1]))

Today(id) ==
    /\ items[id] # None
    /\ Mutate("today", id, today(items[id][1]))

Evening(id) ==
    /\ items[id] # None
    /\ Mutate("evening", id, evening(items[id][1]))

Someday(id) ==
    /\ items[id] # None
    /\ Mutate("someday", id, someday(items[id][1]))

\* ---- ThingsClient.commit ----
Responses == {"ok", "rejected", "transport"}

\* the response the transport can give to a commit sent with this ancestor:
\* the server accepts a commit made on its head and rejects a stale one
CanRespond(response, ancestor) ==
    CASE response = "ok" -> ancestor = serverHead /\ serverHead < MaxHead
      [] response = "rejected" -> ancestor # serverHead
      [] OTHER -> TRUE

\* the exception a commit or a fetch ends with: the response hook
\* raise_on_4xx_5xx and __request both raise ThingsCloudException, chained
\* from the httpx error
raise_on_4xx_5xx ==
    [err |-> "ThingsCloudException", cause |-> Some("HTTPStatusError")]

request_error ==
    [err |-> "ThingsCloudException", cause |-> Some("RequestError")]

Outcome(response) ==
    CASE response = "ok" -> [err |-> "none", cause |-> None]
      [] response = "rejected" -> raise_on_4xx_5xx
      [] OTHER -> request_error

\* the body of the answer to an accepted commit: the log is one entry longer
CommitResponse(head) == [server_head_index |-> head + 1]

\* update.to_api_payload() of the encoded update
WireOf(enc) ==
    IF enc.complete # None THEN WireOfNew(enc.complete[1])
    ELSE WireOfEdit(enc.delta[1])

\* item._commit(update.body.payload)
commit_item(enc) ==
    IF enc.complete # None THEN commit_new(enc.todo, enc.complete[1])
    ELSE commit_delta(enc.todo, enc.delta[1])

Commit(id, response) ==
    /\ items[id] # None
    /\ LET upd == to_update(items[id][1], now)
           enc == upd.enc
       IN IF enc.err # "none"
          THEN \* to_update raised: nothing is sent, and no response is read
               /\ response = "transport"
               /\ items' = [items EXCEPT ![id] = Some(enc.todo)]
               /\ last' = Call("commit", id, enc.err, None)
               /\ UNCHANGED <<offset, serverHead, justCreated>>
          ELSE /\ CanRespond(response, offset)
               /\ last' = [Call("commit", id, Outcome(response).err,
                                Some(Request(upd.type, offset, WireOf(enc))))
                             EXCEPT !.cause = Outcome(response).cause]
               /\ IF response = "ok"
                  THEN /\ items' = [items EXCEPT ![id] = Some(commit_item(enc))]
                       /\ serverHead' = serverHead + 1
                       /\ offset' = CommitResponse(serverHead).server_head_index
                       /\ justCreated' = IF upd.type = UpdateType_NEW
                                         THEN justCreated \cup {id}
                                         ELSE justCreated \ {id}
                  ELSE /\ items' = [items EXCEPT ![id] = Some(enc.todo)]
                       /\ UNCHANGED <<offset, serverHead, justCreated>>
    /\ UNCHANGED <<calls, tags, now>>

\* a direct call of TodoItem._to_new
ToNew(id) ==
    /\ items[id] # None
    /\ LET enc == to_new(items[id][1], now)
       IN /\ items' = [items EXCEPT ![id] = Some(enc.todo)]
          /\ last' = Call("to_new", id, enc.err, None)
    /\ UNCHANGED <<calls, justCreated, tags, offset, serverHead, now>>

\* a direct call of TodoItem._to_edit
ToEdit(id) ==
    /\ items[id] # None
    /\ LET enc == to_edit(items[id][1], now)
       IN /\ items' = [items EXCEPT ![id] = Some(enc.todo)]
          /\ last' = Call("to_edit", id, enc.err, None)
    /\ UNCHANGED <<calls, justCreated, tags, offset, serverHead, now>>

\* ---- the remote log and ThingsClient.update ----
\* another writer appends an operation to the log; what it appended is seen
\* when it is fetched
RemoteAppendUpTo(limit, gap) ==
    /\ serverHead - offset < gap
    /\ serverHead < limit
    /\ serverHead' = serverHead + 1
    /\ last' = Call("remote", "", "none", None)
    /\ UNCHANGED <<calls, justCreated, items, tags, offset, now>>

RemoteAppend == RemoteAppendUpTo(MaxHead, MaxBatch)

\* the sequences of at most max operations a fetch can return
BatchesUpTo(updates, max) == UNION {[1..n -> updates] : n \in 0..max}

Batches(updates) == BatchesUpTo(updates, MaxBatch)

\* a HistoryResponse whose index counts the entries it returns
fetch_counting(index, head, batch) ==
    [start_index |-> index, updates |-> batch,
     current_item_index |-> Len(batch)]

\* a HistoryResponse whose index is one past the head of the log
fetch_past_head(index, head, batch) ==
    [start_index |-> index, updates |-> batch, current_item_index |-> head + 1]

\* __fetch(index): the HistoryResponse to GET /items?start-index=index, the
\* entries of the log from index on and the index of its head
fetch(index, head, batch) ==
    [start_index |-> index, updates |-> batch, current_item_index |-> head]

\* ThingsClient.update: fetch from the cursor, apply, then move the cursor.
\* The fetch returns the log entries from the cursor up to the head.
Update(response, batch) ==
    /\ IF response = "transport"
       THEN /\ batch = <<>>
            /\ last' = [Call("update", "", request_error.err, None) EXCEPT
                          !.cause = request_error.cause,
                          !.start = Some(offset)]
            /\ UNCHANGED <<items, tags, offset, justCreated>>
       ELSE LET data == fetch(offset, serverHead, batch)
                res == process_history(items, tags, data.updates, now)
            IN /\ Len(batch) = serverHead - offset
               /\ items' = res.items
               /\ tags' = res.tags
               /\ last' = [Call("update", "", res.err, None) EXCEPT
                             !.start = Some(data.start_index),
                             !.n = Len(data.updates),
                             !.at = res.at,
                             !.applied = IF res.at = 0 THEN None
                                         ELSE Some(data.updates[res.at])]
               /\ offset' = IF res.err = "none" THEN data.current_item_index
                            ELSE offset
               /\ justCreated' = justCreated \ {batch[i].id : i \in 1..res.at}
    /\ UNCHANGED <<calls, serverHead, now>>

\* TodoApiObject.model_validate of the wire form of a create payload
ParseNew(wire) ==
    [k \in SchemaKeys |->
        IF wire.vals[k] = None THEN NoDate ELSE wire.vals[k][1]]

\* the operation the log holds for a request the server accepted
LoggedUpdate(id, request) ==
    IF request.type = UpdateType_NEW
    THEN NewUpdate(id, TASK_6, ParseNew(request.wire))
    ELSE EditUpdate(id, TASK_6, request.wire.keys, request.wire.vals)

\* _process_history fed the operation the client's last commit got
\* acknowledged, as a fetch that includes it does
Replay(id) ==
    /\ last.op = "commit"
    /\ last.id = id
    /\ last.err = "none"
    /\ LET upd == LoggedUpdate(id, last.sent[1])
           res == process_history(items, tags, <<upd>>, now)
       IN /\ items' = res.items
          /\ tags' = res.tags
          /\ last' = [Call("replay", id, res.err, None) EXCEPT
                        !.n = 1, !.at = res.at, !.applied = Some(upd)]
    /\ justCreated' = justCreated \ {id}
    /\ UNCHANGED <<calls, offset, serverHead, now>>

\* ---- the scheduling tools of the MCP server ----
\* a direct call of _apply_when on a stored item
ApplyWhen(id, when) ==
    /\ items[id] # None
    /\ MutateWith("apply_when", id, Some(when), apply_when(items[id][1], when))

\* update_project(uuid=..., new_title=..., when=...): _sync_client, which
\* fetches an empty batch as long as no other writer appends,
\* _resolve_project, the assignment of a new title when one is given,
\* _apply_when, whose ValueError is returned as a message, and commit
UpdateProject(uuid, new_title, when, response) ==
    /\ calls < MaxCalls
    /\ calls' = calls + 1
    /\ serverHead = offset
    /\ LET data == fetch(offset, serverHead, <<>>)
           fetched == process_history(items, tags, data.updates, now)
           its == fetched.items
           found == its[uuid] # None /\ its[uuid][1].type = PROJECT
       IN IF ~found
          THEN /\ response = "transport"
               /\ items' = its
               /\ last' = [Call("update_project", uuid,
                                "No project found", None)
                             EXCEPT !.arg = Some(when)]
               /\ UNCHANGED <<offset, serverHead, justCreated>>
          ELSE LET proj == IF new_title # None
                           THEN [its[uuid][1] EXCEPT !.title = new_title[1]]
                           ELSE its[uuid][1]
                   res == apply_when(proj, when)
                   upd == to_update(res.todo, now)
                   enc == upd.enc
               IN IF res.err # "none" \/ enc.err # "none"
                  THEN /\ response = "transport"
                       /\ items' = [its EXCEPT ![uuid] =
                                      Some(IF res.err # "none" THEN res.todo
                                           ELSE enc.todo)]
                       /\ last' = [Call("update_project", uuid,
                                        IF res.err # "none" THEN res.err
                                        ELSE enc.err, None)
                                     EXCEPT !.arg = Some(when)]
                       /\ UNCHANGED <<offset, serverHead>>
                       /\ justCreated' = justCreated \ {uuid}
                  ELSE /\ CanRespond(response, data.current_item_index)
                       /\ last' = [Call("update_project", uuid,
                                        Outcome(response).err,
                                        Some(Request(upd.type,
                                                     data.current_item_index,
                                                     WireOf(enc))))
                                     EXCEPT !.cause = Outcome(response).cause,
                                            !.arg = Some(when)]
                       /\ IF response = "ok"
                          THEN /\ items' = [its EXCEPT ![uuid] =
                                              Some(commit_item(enc))]
                               /\ serverHead' = serverHead + 1
                               /\ offset' =
                                    CommitResponse(serverHead).server_head_index
                               /\ justCreated' =
                                    IF upd.type = UpdateType_NEW
                                    THEN justCreated \cup {uuid}
                                    ELSE justCreated \ {uuid}
                          ELSE /\ items' = [its EXCEPT ![uuid] = Some(enc.todo)]
                               /\ UNCHANGED <<offset, serverHead>>
                               /\ justCreated' = justCreated \ {uuid}
    /\ UNCHANGED <<tags, now>>

\* ---- encoding a tag, an area, a checklist item ----
\* the call record of an encoding: arg holds the entity built and sent
\* update.to_api_payload() of its to_update()
Encoded(op, entity, update) ==
    [Call(op, entity.uuid, "none", Some(Update_to_api_payload(update)))
       EXCEPT !.arg = Some(entity)]

TagToUpdate(uuid, title, parent) ==
    /\ last' = Encoded("tag_to_update", LocalTag(uuid, title, parent),
                       TagItem_to_update(LocalTag(uuid, title, parent)))
    /\ UNCHANGED <<items, tags, offset, serverHead, now, calls, justCreated>>

AreaToUpdate(uuid, title) ==
    /\ last' = Encoded("area_to_update", LocalArea(uuid, title),
                       AreaItem_to_update(LocalArea(uuid, title)))
    /\ UNCHANGED <<items, tags, offset, serverHead, now, calls, justCreated>>

ChecklistToUpdate(uuid, title, task_uuid) ==
    /\ last' = Encoded("checklist_to_update",
                       LocalChecklistItem(uuid, title, task_uuid),
                       ChecklistItem_to_update(
                           LocalChecklistItem(uuid, title, task_uuid), now))
    /\ UNCHANGED <<items, tags, offset, serverHead, now, calls, justCreated>>

\* ---- the views of ThingsClient ----
Stored(its) == {id \in DOMAIN its : its[id] # None}

active_tasks(its) ==
    {id \in Stored(its) : /\ ~its[id][1].trashed
                          /\ its[id][1].status = TODO
                          /\ its[id][1].type = TASK}

inbox(its) == {id \in active_tasks(its) : its[id][1].destination = INBOX}

today_view(its) == {id \in active_tasks(its) : is_today(its[id][1])}

\* anytime() that keeps the tasks scheduled for today
anytime_with_today(its) ==
    {id \in active_tasks(its) : its[id][1].destination = ANYTIME}

anytime(its) ==
    {id \in active_tasks(its) :
        its[id][1].destination = ANYTIME /\ ~is_today(its[id][1])}

someday_view(its) == {id \in active_tasks(its) : its[id][1].destination = SOMEDAY}

\* projects() without its filter on the trashed flag
projects_with_trashed(its) ==
    {id \in Stored(its) : its[id][1].type = PROJECT}

projects(its) ==
    {id \in Stored(its) : ~its[id][1].trashed /\ its[id][1].type = PROJECT}

by_project(its, project_uuid) ==
    {id \in active_tasks(its) : its[id][1].projects # <<>>
                                /\ its[id][1].projects[1] = project_uuid}

\* completed() that takes every closed item for a completed one
completed_with_cancelled(its) ==
    {id \in Stored(its) : its[id][1].status # TODO /\ ~its[id][1].trashed}

completed(its) ==
    {id \in Stored(its) : its[id][1].status = COMPLETE /\ ~its[id][1].trashed}

trashed(its) == {id \in Stored(its) : its[id][1].trashed}

\* all_tasks() without its filter on the trashed flag
all_tasks_with_trashed(its) ==
    {id \in Stored(its) : its[id][1].type = TASK}

all_tasks(its) ==
    {id \in Stored(its) : ~its[id][1].trashed /\ its[id][1].type = TASK}

\* ---- the tag query of the MCP server ----
\* the ids of the tags in the store
StoredTags(tgs) == {id \in DOMAIN tgs : tgs[id] # None}

\* the loop of get_tagged_items over client.tags(): the first tag, in the
\* order of the store, whose lower-cased title is the lower-cased argument
find_tag(tgs, tag_title) ==
    LET matching == {id \in StoredTags(tgs) :
                        Lower(tgs[id][1].title) = Lower(tag_title)}
    IN IF matching = {} THEN None
       ELSE Some(CHOOSE id \in matching :
                    \A other \in matching :
                        tgs[id][1].pos <= tgs[other][1].pos)

\* get_tagged_items listing the trashed tasks as well
get_tagged_items_with_trashed(its, tgs, tag_title) ==
    LET tag_uuid == find_tag(tgs, tag_title)
    IN IF tag_uuid = None THEN [found |-> FALSE, tasks |-> {}]
       ELSE [found |-> TRUE,
             tasks |-> {id \in Stored(its) :
                          /\ its[id][1].type = TASK
                          /\ \E i \in DOMAIN its[id][1].tags :
                                its[id][1].tags[i] = tag_uuid[1]}]

\* get_tagged_items after its sync: 'not found', or the tasks of all_tasks()
\* whose tags hold the uuid of the tag found
get_tagged_items(its, tgs, tag_title) ==
    LET tag_uuid == find_tag(tgs, tag_title)
    IN IF tag_uuid = None THEN [found |-> FALSE, tasks |-> {}]
       ELSE [found |-> TRUE,
             tasks |-> {id \in all_tasks(its) :
                          \E i \in DOMAIN its[id][1].tags :
                              its[id][1].tags[i] = tag_uuid[1]}]

\* the tool get_tagged_items(tag_title): _sync_client, whose update fetches
\* the batch the log holds past the cursor, then the query on the stores
GetTaggedItems(tag_title, batch) ==
    /\ Len(batch) = serverHead - offset
    /\ LET data == fetch(offset, serverHead, batch)
           res == process_history(items, tags, data.updates, now)
       IN /\ items' = res.items
          /\ tags' = res.tags
          /\ offset' = IF res.err = "none" THEN data.current_item_index
                       ELSE offset
          /\ justCreated' = justCreated \ {batch[i].id : i \in 1..res.at}
          /\ last' = [Call("get_tagged_items", "", res.err, None) EXCEPT
                        !.arg = Some(tag_title),
                        !.out = IF res.err # "none" THEN None
                                ELSE Some(get_tagged_items(res.items, res.tags,
                                                           tag_title))]
    /\ UNCHANGED <<calls, serverHead, now>>

\* ---- the creating tools of the MCP server ----
\* a commit request and the answer to it: the ancestor-index sent and the
\* server-head-index returned
Exchange(ancestor, response) ==
    [ancestor |-> ancestor, server_head_index |-> response.server_head_index]

\* the tool create_tag(title, parent): _sync_client, the lookup of the parent
\* among client.tags(), TagItem.to_update, the private __commit, which sends
\* the cursor as ancestor-index and leaves it as it is, and the tag put into
\* the tag store (the store record carries the uuid and the title)
CreateTag(uuid, title, parent, batch) ==
    /\ Len(batch) = serverHead - offset
    /\ LET data == fetch(offset, serverHead, batch)
           res == process_history(items, tags, data.updates, now)
           parent_uuid == IF parent = None THEN None
                          ELSE find_tag(res.tags, parent[1])
           tag == LocalTag(uuid, title, parent_uuid)
           update == TagItem_to_update(tag)
       IN /\ items' = res.items
          /\ justCreated' = justCreated \ {batch[i].id : i \in 1..res.at}
          /\ IF res.err # "none"
             THEN /\ tags' = res.tags
                  /\ last' = Call("create_tag", uuid, res.err, None)
                  /\ UNCHANGED <<offset, serverHead>>
             ELSE IF parent # None /\ parent_uuid = None
             THEN /\ tags' = res.tags
                  /\ offset' = data.current_item_index
                  /\ last' = [Call("create_tag", uuid,
                                   "Parent tag not found", None)
                                EXCEPT !.arg = Some(tag)]
                  /\ UNCHANGED serverHead
             ELSE /\ res.tags[uuid] = None
                  /\ serverHead < MaxLog
                  /\ serverHead' = serverHead + 1
                  /\ offset' = data.current_item_index
                  /\ tags' = put_tag(res.tags, TagItem(tag.uuid, tag.title))
                  /\ last' = [Call("create_tag", uuid, "none",
                                   Some(Update_to_api_payload(update)))
                                EXCEPT !.arg = Some(tag),
                                       !.out = Some(<<Exchange(
                                           data.current_item_index,
                                           CommitResponse(serverHead))>>)]
    /\ UNCHANGED <<calls, now>>

\* the tool create_task(title, checklist_items): _sync_client, TodoItem,
\* client.commit(task), which moves the cursor to the head returned, the task
\* put into the store, then for the first checklist item the private
\* __commit, which leaves the cursor, and the assignment to
\* client._checklist_items, an attribute ThingsClient does not have
CreateTask(id, title, checklist_items, batch) ==
    /\ Len(batch) = serverHead - offset
    /\ LET data == fetch(offset, serverHead, batch)
           res == process_history(items, tags, data.updates, now)
           task == TodoItem(id, title, now)
           upd == to_update(task, now)
           first == Exchange(data.current_item_index,
                             CommitResponse(serverHead))
           second == Exchange(first.server_head_index,
                              CommitResponse(serverHead + 1))
       IN /\ tags' = res.tags
          /\ IF res.err # "none"
             THEN /\ items' = res.items
                  /\ justCreated' =
                       justCreated \ {batch[i].id : i \in 1..res.at}
                  /\ last' = Call("create_task", id, res.err, None)
                  /\ UNCHANGED <<offset, serverHead>>
             ELSE /\ res.items[id] = None
                  /\ upd.enc.err = "none"
                  /\ serverHead + (IF checklist_items = 0 THEN 1 ELSE 2)
                        <= MaxLog
                  /\ items' = [res.items EXCEPT
                                 ![id] = Some(commit_item(upd.enc))]
                  /\ justCreated' =
                       (justCreated \ {batch[i].id : i \in 1..res.at})
                         \cup {id}
                  /\ offset' = first.server_head_index
                  /\ IF checklist_items = 0
                     THEN /\ serverHead' = serverHead + 1
                          /\ last' = [Call("create_task", id, "none",
                                           Some(Request(upd.type,
                                                        first.ancestor,
                                                        WireOf(upd.enc))))
                                        EXCEPT !.out = Some(<<first>>)]
                     ELSE /\ serverHead' = serverHead + 2
                          /\ last' = [Call("create_task", id,
                                           "AttributeError",
                                           Some(Request(upd.type,
                                                        first.ancestor,
                                                        WireOf(upd.enc))))
                                        EXCEPT !.out = Some(<<first, second>>)]
    /\ UNCHANGED <<calls, now>>

\* the objects handed to the project setter: a task, a project, and the
\* item itself once it is a project
ProjectArgs(id) ==
    {TodoItem("P", "A", 1), as_project(TodoItem("P", "A", 1)).todo}
    \cup {items[id][1] : i \in {j \in {1} : items[id] # None}}

\* the mutation entry points called on a stored item
Mutation(id) ==
    \/ \E title \in Titles : SetTitle(id, title)
    \/ \E date \in {NoDate, TodayDate} : SetScheduledDate(id, date)
    \/ \E status \in StatusValues : SetStatus(id, status)
    \/ \E d \in {INBOX, ANYTIME, SOMEDAY} : SetDestination(id, d)
    \/ \E p \in {None} \cup {Some(i) : i \in ItemIds} : SetProject(id, p)
    \/ \E project \in ProjectArgs(id) : SetProjectItem(id, project)
    \/ \E a \in {None} \cup {Some(i) : i \in AreaIds} : SetArea(id, a)
    \/ Delete(id)
    \/ Restore(id)
    \/ AsProject(id)
    \/ Today(id)
    \/ Evening(id)
    \/ Someday(id)

\* the client used by a single writer: the task X, its mutations and commits
Next ==
    \/ Tick
    \/ NewItem("X", "A")
    \/ Mutation("X")
    \/ \E response \in Responses : Commit("X", response)
    \/ ToNew("X")
    \/ ToEdit("X")

Spec == Init /\ [][Next]_vars

\* the client fed by the remote log: the history applier
NextHistory ==
    \/ Tick
    \/ RemoteAppend
    \/ \E response \in {"ok", "transport"}, batch \in Batches(TaskUpdates) :
          Update(response, batch)

SpecHistory == Init /\ [][NextHistory]_vars

\* the history applier fed batches of several operations on one task
NextOrder ==
    \/ Tick
    \/ RemoteAppendUpTo(MaxLog, MaxLog)
    \/ \E response \in {"ok", "transport"},
          batch \in BatchesUpTo(OrderUpdates, MaxLog) :
          Update(response, batch)

SpecOrder == Init /\ [][NextOrder]_vars

\* a client that commits its task X while another writer appends to the log
InitSync == \E head_index \in SessionHeads : Session(head_index)

NextSync ==
    \/ Tick
    \/ NewItem("X", "A")
    \/ \E title \in Titles : SetTitle("X", title)
    \/ \E response \in Responses : Commit("X", response)
    \/ RemoteAppend
    \/ \E response \in {"ok", "transport"}, batch \in Batches(SyncUpdates) :
          Update(response, batch)
    \/ Replay("X")

SpecSync == InitSync /\ [][NextSync]_vars

\* the task X, turned into a project or not, and the operations that
\* schedule it
NextWhen ==
    \/ Tick
    \/ NewItem("X", "A")
    \/ AsProject("X")
    \/ \E response \in {"ok", "transport"} : Commit("X", response)
    \/ \E d \in {INBOX, ANYTIME, SOMEDAY} : SetDestination("X", d)
    \/ Today("X")
    \/ Evening("X")
    \/ Someday("X")
    \/ \E when \in WhenValues : ApplyWhen("X", when)
    \/ \E new_title \in {None, Some("B")}, when \in WhenValues,
          response \in {"ok", "transport"} :
          UpdateProject("X", new_title, when, response)

SpecWhen == Init /\ [][NextWhen]_vars

\* tags, areas and checklist items: their Creates arriving from the log and
\* the updates encoded for local ones
NextKinds ==
    \/ Tick
    \/ RemoteAppend
    \/ \E response \in {"ok", "transport"}, batch \in Batches(KindUpdates) :
          Update(response, batch)
    \/ \E title \in Titles, parent \in {None, Some("P")} :
          TagToUpdate("W", title, parent)
    \/ \E title \in Titles : AreaToUpdate("R", title)
    \/ \E title \in Titles, task_uuid \in ItemIds :
          ChecklistToUpdate("K", title, task_uuid)

SpecKinds == Init /\ [][NextKinds]_vars

\* tags and tagged tasks arriving from the log, and the query for the tasks
\* of a tag
NextTags ==
    \/ RemoteAppendUpTo(MaxLog, MaxBatch)
    \/ \E batch \in Batches(TagUpdates) : Update("ok", batch)
    \/ \E tag_title \in TagQueries, batch \in Batches(TagUpdates) :
          GetTaggedItems(tag_title, batch)

SpecTags == Init /\ [][NextTags]_vars

\* the item X as a refresh stored it, and the mutations made on it
NextStored ==
    \/ RemoteAppend
    \/ \E batch \in Batches(InboxCreates) : Update("ok", batch)
    \/ Mutation("X")

SpecStored == Init /\ [][NextStored]_vars

\* what another writer appends while the creating tools are used
ToolUpdates ==
    {NewUpdate("W", TAG_3, TagApiObject("Work")),
     NewUpdate("X", TASK_6, ApiObject("A", TASK, 1, <<>>))}

\* the titles and parent names handed to create_tag
ToolTitles == {"Work", "Personal"}

\* the creating tools, with another writer appending to the log
NextTools ==
    \/ RemoteAppendUpTo(MaxLog, MaxBatch)
    \/ \E batch \in Batches(ToolUpdates) : Update("ok", batch)
    \/ \E uuid \in {"W", "P"}, title \in ToolTitles,
          parent \in {None} \cup {Some(t) : t \in ToolTitles},
          batch \in Batches(ToolUpdates) :
          CreateTag(uuid, title, parent, batch)
    \/ \E id \in ItemIds, checklist_items \in 0..2,
          batch \in Batches(ToolUpdates) :
          CreateTask(id, "A", checklist_items, batch)

SpecTools == InitSync /\ [][NextTools]_vars

\* ---- claims ----
\* the request the last call sent was an edit / a create
SentEdit(call) == call.sent # None /\ call.sent[1].type = UpdateType_EDIT
SentNew(call) == call.sent # None /\ call.sent[1].type = UpdateType_NEW

\* C1: after a successful edit commit of a synced task the synced state
\* equals the working state on every schema field (so that a second commit
\* without further change is rejected as a no-op).
C1_SyncedEqualsWorkingAfterCommit ==
    (last.op = "commit" /\ last.err = "none" /\ SentEdit(last))
        => items[last.id][1].synced[1] = Working(items[last.id][1])

\* C2: the edit payload of a commit contains every schema field whose working
\* value differs from its synced value, carrying the working value (null
\* included).
C2_EditCarriesEveryChange ==
    [][(last'.op = "commit" /\ SentEdit(last'))
         => LET todo == items[last'.id][1]
                wire == last'.sent[1].wire
            IN \A k \in SchemaKeys :
                  todo.synced[1][k] # Working(todo)[k]
                     => /\ k \in wire.keys
                        /\ wire.vals[k] = Wrap(k, Working(todo)[k])]_vars

\* C3: the edit payload of a commit never contains a field whose working
\* value equals its synced value.
C3_EditOmitsUnchanged ==
    [][(last'.op = "commit" /\ SentEdit(last'))
         => LET todo == items[last'.id][1]
            IN \A k \in last'.sent[1].wire.keys :
                  todo.synced[1][k] # Working(todo)[k]]_vars

\* C4: a commit (or a direct edit encoding) of an entity whose synced state
\* was set by a create commit and that was not changed since raises "no
\* changes found" before any request is sent; the entity, the cursor and the
\* remote log are unchanged.
C4_NoOpEditRejected ==
    [][\A id \in ItemIds :
          (id \in justCreated /\ last'.id = id /\ last'.op \in {"commit", "to_edit"})
             => /\ last'.err = "ValueError: no changes found"
                /\ last'.sent = None
                /\ items' = items
                /\ offset' = offset
                /\ serverHead' = serverHead]_vars

C4_Witness ==
    /\ last.op = "commit"
    /\ last.id \in justCreated
    /\ last.err = "ValueError: no changes found"
    /\ now > items[last.id][1].modification_date

\* C5: commit sends a Create exactly when the synced state is null and an
\* Edit otherwise; encoding a create for a synced entity fails and changes
\* nothing, and encoding an edit for a never synced entity fails.
C5_CreateIffNeverSynced ==
    [][\A id \in ItemIds :
          /\ (last'.op = "commit" /\ last'.id = id /\ last'.sent # None)
                => /\ SentNew(last') <=> items[id][1].synced = None
                   /\ SentEdit(last') <=> items[id][1].synced # None
                   /\ SentNew(last') => last'.sent[1].wire.keys = SchemaKeys
          /\ (last'.op = "to_new" /\ last'.id = id /\ items[id][1].synced # None)
                => /\ last'.err = "ValueError: current version exists"
                   /\ items' = items
          /\ (last'.op = "to_edit" /\ last'.id = id /\ items[id][1].synced = None)
                => /\ last'.err = "ValueError: no current version exists"
                   /\ items' = items]_vars

C5_Witness ==
    /\ last.op = "to_new"
    /\ last.err = "ValueError: current version exists"
    /\ items[last.id][1].synced # None
    /\ items[last.id][1].synced[1] # Working(items[last.id][1])

\* the update of the last call applied exactly this one operation
AppliedOne(call, type) ==
    /\ call.op = "update"
    /\ call.n = 1
    /\ call.applied # None
    /\ call.applied[1].type = type

\* C6: a history Edit applied to a stored entity overwrites every field
\* present in its payload in the working state and in the synced state.
C6_EditSetsWorkingAndSynced ==
    (/\ last.op = "update"
     /\ last.err = "none"
     /\ last.applied # None
     /\ last.applied[1].type = UpdateType_EDIT)
        => LET upd == last.applied[1]
               todo == items[upd.id][1]
           IN \A k \in upd.wire[1].keys \cap DumpKeys :
                 upd.wire[1].vals[k] # None
                    => /\ ItemAttr(todo, k) = upd.wire[1].vals[k][1]
                       /\ todo.synced # None
                       /\ todo.synced[1][k] = upd.wire[1].vals[k][1]

\* C7: applying a history Edit leaves every field absent from its payload
\* unchanged in the target entity (the modification date included) and
\* leaves every other entity unchanged.
C7_EditLeavesAbsentFields ==
    [][(AppliedOne(last', UpdateType_EDIT) /\ items[last'.applied[1].id] # None)
         => LET upd == last'.applied[1]
            IN /\ \A k \in DumpKeys \ upd.wire[1].keys :
                     ItemAttr(items'[upd.id][1], k) = ItemAttr(items[upd.id][1], k)
               /\ \A other \in AllIds \ {upd.id} : items'[other] = items[other]
               /\ tags' = tags]_vars

\* C8: a history Create whose id is already in the store fails with an error
\* and does not replace or modify the stored entity.
C8_DuplicateCreateRejected ==
    [][(/\ AppliedOne(last', UpdateType_NEW)
        /\ last'.applied[1].entity = TASK_6
        /\ items[last'.applied[1].id] # None)
         => /\ last'.err # "none"
            /\ items' = items]_vars

\* C9: a history Edit whose id has no prior Create in the store fails with a
\* not-found error and leaves the store and the cursor unchanged.
C9_EditOfUnknownIdFails ==
    [][(/\ AppliedOne(last', UpdateType_EDIT)
        /\ items[last'.applied[1].id] = None
        /\ tags[last'.applied[1].id] = None)
         => /\ last'.err = "ValueError: todo not found"
            /\ items' = items
            /\ tags' = tags
            /\ offset' = offset]_vars

C9_Witness ==
    /\ AppliedOne(last, UpdateType_EDIT)
    /\ last.err = "ValueError: todo not found"
    /\ items[last.applied[1].id] = None
    /\ tags[last.applied[1].id] = None
    /\ Stored(items) # {}
    /\ offset < serverHead

\* C10: a history Delete applied to a stored entity marks it trashed: it
\* stays in the store, appears in trashed() and leaves the active views.
C10_DeleteTrashes ==
    (/\ last.op = "update"
     /\ last.err = "none"
     /\ last.applied # None
     /\ last.applied[1].type = UpdateType_DELETE
     /\ items[last.applied[1].id] # None)
        => /\ items[last.applied[1].id][1].trashed
           /\ last.applied[1].id \in trashed(items)
           /\ last.applied[1].id \notin active_tasks(items)

\* C11: a commit that fails in transport or is rejected by the server leaves
\* the entity (field values and synced state) and the cursor exactly as
\* they were, for create commits and edit commits alike.
C11_FailedCommitLeavesState ==
    [][(last'.op = "commit" /\ last'.sent # None /\ last'.err # "none")
         => /\ items' = items
            /\ offset' = offset]_vars

\* C12: encoding a never synced entity as a create payload changes no field
\* of the entity and leaves its synced state null.
C12_CreateEncodingIsPure ==
    [][(/\ last'.op = "to_new"
        /\ items[last'.id] # None
        /\ items[last'.id][1].synced = None)
         => items' = items]_vars

\* C13: every request commit sends carries the current cursor as its
\* ancestor index; after a successful commit the cursor is the head index
\* the server returned; every update fetches from the current cursor.
C13_CommitCarriesCursorAndAdvances ==
    [][/\ (last'.op = "commit" /\ last'.sent # None)
            => /\ last'.sent[1].ancestor = offset
               /\ last'.err = "none" =>
                     /\ offset' = CommitResponse(serverHead).server_head_index
                     /\ offset' = serverHead'
       /\ last'.op = "update" => last'.start = Some(offset)]_vars

C13_Witness ==
    /\ last.op = "commit"
    /\ last.err = "none"
    /\ last.sent[1].ancestor >= 1
    /\ offset = last.sent[1].ancestor + 1

\* C14: the cursor starts at the head index of the session and never
\* decreases, whatever commit and update calls succeed or fail.
C14_CursorNeverDecreases ==
    /\ offset = serverHead
    /\ [][offset' >= offset]_vars

C14_Witness ==
    /\ last.op = "commit"
    /\ last.cause = Some("HTTPStatusError")
    /\ offset >= 1
    /\ offset < serverHead

\* C15: a successful update fetches from the cursor, applies every returned
\* operation in the order received (the last edit of a field gives its final
\* value) and then sets the cursor to the index the response reports; an
\* update that fails leaves the cursor where it was.
C15_UpdateAppliesInOrder ==
    [][last'.op = "update"
         => /\ last'.start = Some(offset)
            /\ last'.err = "none" =>
                  /\ last'.at = last'.n
                  /\ offset' = serverHead
                  /\ (/\ last'.applied # None
                      /\ last'.applied[1].type = UpdateType_EDIT
                      /\ "title" \in last'.applied[1].wire[1].keys)
                        => items'[last'.applied[1].id][1].title
                              = last'.applied[1].wire[1].vals["title"][1]
            /\ last'.err # "none" => offset' = offset]_vars

\* two operations applied to a stored X, ending with the edit to title "B":
\* the first of them can only be the edit to title "A"
C15_Witness ==
    /\ last.op = "update"
    /\ last.err = "none"
    /\ last.n = 2
    /\ last.start = Some(1)
    /\ last.applied[1].type = UpdateType_EDIT
    /\ last.applied[1].wire[1].vals["title"] = Some("B")
    /\ items["X"][1].title = "B"

\* C16: feeding the operation of the commit just acknowledged back through
\* the history applier does not fail and leaves the working state and the
\* synced state of the entity as the commit left them.
C16_ReplayOfOwnOperation ==
    [][last'.op = "replay"
         => /\ last'.err = "none"
            /\ items'[last'.id] # None
            /\ Working(items'[last'.id][1]) = Working(items[last'.id][1])
            /\ items'[last'.id][1].synced = items[last'.id][1].synced]_vars

\* C17: a locally created entity has a null synced state until its first
\* successful commit, which sets it to the create payload sent; the synced
\* state is never null again, so a Create is only sent for a never synced
\* entity and every later commit is an Edit.
C17_OneCreatePerEntity ==
    [][\A id \in ItemIds :
          /\ (items[id] = None /\ items'[id] # None /\ last'.op = "new")
                => items'[id][1].synced = None
          /\ (/\ items[id] # None /\ items[id][1].synced = None
              /\ items'[id] # None /\ items'[id][1].synced # None)
                => /\ last'.op = "commit" /\ last'.err = "none"
                   /\ SentNew(last')
                   /\ \A k \in SchemaKeys :
                         last'.sent[1].wire.vals[k]
                            = Wrap(k, items'[id][1].synced[1][k])
          /\ (items[id] # None /\ items[id][1].synced # None)
                => items'[id] # None /\ items'[id][1].synced # None
          /\ (last'.op = "commit" /\ last'.id = id /\ SentNew(last'))
                => items[id][1].synced = None
          /\ (/\ last'.op = "commit" /\ last'.id = id
              /\ last'.err = "none" /\ SentNew(last'))
                => items'[id][1].synced # None]_vars

C17_Witness ==
    /\ last.op = "commit"
    /\ last.err = "none"
    /\ SentEdit(last)
    /\ items[last.id][1].synced # None

\* C18: the entity a history Create of a task builds has the id of the
\* operation, is stored under it and has the payload as its synced state:
\* committing it unchanged is rejected as a no-op, committing it after a
\* local change encodes an Edit.
C18_HistoryCreateIsSynced ==
    (/\ last.op = "update"
     /\ last.err = "none"
     /\ last.applied # None
     /\ last.applied[1].type = UpdateType_NEW
     /\ last.applied[1].entity = TASK_6)
        => /\ items[last.applied[1].id] # None
           /\ LET todo == items[last.applied[1].id][1]
                  changes ==
                      {[todo EXCEPT !.title = title] :
                          title \in Titles \ {todo.title}}
                      \cup {project_set(todo, None).todo :
                               i \in {j \in {1} : todo.projects # <<>>}}
              IN /\ todo.uuid = last.applied[1].id
                 /\ todo.synced = last.applied[1].complete
                 /\ to_update(todo, now).type = UpdateType_EDIT
                 /\ to_update(todo, now).enc.err = "ValueError: no changes found"
                 /\ \A changed \in changes :
                       /\ to_update(changed, now).type = UpdateType_EDIT
                       /\ to_update(changed, now).enc.err = "none"

\* C19: a commit the server rejects ends with an error different from the
\* error a transport failure ends with.
C19_RejectionDistinctFromTransport ==
    (last.op = "commit" /\ last.cause = raise_on_4xx_5xx.cause)
        => last.err # request_error.err

\* C20: setting the status of a task to its current status is rejected and
\* changes nothing; setting it to Complete or Cancelled sets the completion
\* date to the current instant; setting it to Todo clears it.
C20_StatusSetter ==
    [][last'.op = "status"
         => LET old == items[last'.id][1]
                new == items'[last'.id][1]
                status == last'.arg[1]
            IN IF status = old.status
               THEN last'.err # "none" /\ new = old
               ELSE /\ last'.err = "none"
                    /\ new.status = status
                    /\ new.completion_date =
                          IF status = TODO THEN NoDate ELSE now]_vars

C20_Witness ==
    /\ last.op = "status"
    /\ last.arg = Some(TODO)
    /\ last.err = "none"
    /\ items[last.id][1].completion_date = NoDate
    /\ items[last.id][1].status = TODO

\* C21: assigning a project to a task clears its area, assigning an area
\* clears its project, either assignment moves an Inbox task to Anytime, and
\* no task ever has both a project and an area.
C21_ParentsExclusive ==
    [][\A id \in ItemIds :
          /\ items'[id] # None
                => ~(items'[id][1].projects # <<>> /\ items'[id][1].areas # <<>>)
          /\ (/\ last'.id = id /\ last'.err = "none"
              /\ last'.op \in {"project", "area"}
              /\ items[id] # None /\ items'[id] # None)
                => LET old == items[id][1]
                       new == items'[id][1]
                   IN /\ (last'.op = "project" /\ new.projects # <<>>)
                            => /\ new.areas = <<>>
                               /\ old.destination = INBOX
                                     => new.destination = ANYTIME
                      /\ (last'.op = "area" /\ new.areas # <<>>)
                            => /\ new.projects = <<>>
                               /\ old.destination = INBOX
                                     => new.destination = ANYTIME]_vars

\* a task committed with an area and then given a project
C21_Witness ==
    /\ last.op = "project"
    /\ last.err = "none"
    /\ items[last.id][1].projects = <<"P">>
    /\ items[last.id][1].areas = <<>>
    /\ items[last.id][1].synced # None
    /\ items[last.id][1].synced[1].areas = <<"R">>

\* C22: assigning a task as its own project, as an object or as an id, is
\* rejected and leaves the task as it was; no task references itself as
\* project.
C22_NoSelfProject ==
    [][\A id \in ItemIds :
          /\ (last'.op = "project" /\ last'.id = id /\ last'.err # "none")
                => items'[id] = items[id]
          /\ items'[id] # None => items'[id][1].projects # <<id>>]_vars

C22_Witness ==
    /\ last.op = "project"
    /\ last.err = "ValueError: cannot assign self as project"
    /\ items[last.id][1].projects = <<"P">>

\* the ids returned by the views of active tasks
TaskViews(its) ==
    inbox(its) \cup today_view(its) \cup anytime(its) \cup someday_view(its)
        \cup UNION {by_project(its, p) : p \in ItemIds}

\* C24 (as stated): every view of active entities, inbox, today, anytime,
\* someday, by_project and projects, returns only entities that are not
\* trashed and whose status is neither Complete nor Cancelled.
C24_ActiveViewsAsStated ==
    \A id \in TaskViews(items) \cup projects(items) :
        /\ ~items[id][1].trashed
        /\ items[id][1].status \notin {COMPLETE, CANCELLED}

\* C24 (amended): inbox, today, anytime, someday and by_project return only
\* tasks that are not trashed and whose status is neither Complete nor
\* Cancelled; projects returns only projects that are not trashed, whatever
\* their status.
C24_ActiveViews ==
    /\ \A id \in TaskViews(items) :
          /\ ~items[id][1].trashed
          /\ items[id][1].status \notin {COMPLETE, CANCELLED}
          /\ items[id][1].type = TASK
    /\ \A id \in projects(items) :
          ~items[id][1].trashed /\ items[id][1].type = PROJECT

\* a project that was completed is still returned by projects()
C24_Witness ==
    /\ last.op = "status"
    /\ last.err = "none"
    /\ items[last.id][1].type = PROJECT
    /\ items[last.id][1].status = COMPLETE
    /\ last.id \in projects(items)

\* the active tasks: not trashed, neither completed nor cancelled, of type task
ActiveTasks(its) ==
    {id \in Stored(its) : /\ ~its[id][1].trashed
                          /\ its[id][1].status \notin {COMPLETE, CANCELLED}
                          /\ its[id][1].type = TASK}

\* C25: inbox, today, anytime and someday are pairwise disjoint and their
\* union is the set of active tasks; today is the active tasks with
\* destination Anytime scheduled for today, anytime the remaining active
\* tasks with destination Anytime.
C25_ViewsPartitionActiveTasks ==
    LET views == <<inbox(items), today_view(items), anytime(items),
                   someday_view(items)>>
        activeAnytime ==
            {id \in ActiveTasks(items) : items[id][1].destination = ANYTIME}
    IN /\ \A i, j \in 1..4 : i # j => views[i] \cap views[j] = {}
       /\ UNION {views[i] : i \in 1..4} = ActiveTasks(items)
       /\ today_view(items) =
            {id \in activeAnytime : items[id][1].scheduled_date = TodayDate}
       /\ anytime(items) = activeAnytime \ today_view(items)

\* a task moved to today: in today() and in no other of the four views
C25_Witness ==
    /\ last.op = "today"
    /\ last.err = "none"
    /\ today_view(items) = {last.id}
    /\ anytime(items) = {}

\* C26: a trashed item is in trashed() and in none of inbox, today, anytime,
\* someday, projects, by_project, completed and all_tasks; trashed() holds no
\* item whose flag is clear; a task created in Inbox is the only result of
\* inbox(), and once trashed it has left inbox() and is in trashed().
C26_TrashedOnlyInTrash ==
    [][/\ \A id \in Stored(items') :
             items'[id][1].trashed
                => /\ id \in trashed(items')
                   /\ id \notin TaskViews(items') \cup projects(items')
                          \cup completed(items') \cup all_tasks(items')
       /\ \A id \in trashed(items') : items'[id][1].trashed
       /\ (last'.op = "new" /\ Stored(items) = {})
             => inbox(items') = {last'.id}
       /\ (/\ last'.op = "delete" /\ last'.err = "none"
           /\ inbox(items) = {last'.id})
             => inbox(items') = {} /\ trashed(items') = {last'.id}]_vars

\* the Inbox task after it was trashed
C26_Witness ==
    /\ last.op = "delete"
    /\ last.err = "none"
    /\ items[last.id][1].destination = INBOX
    /\ items[last.id][1].trashed
    /\ trashed(items) = {last.id}
    /\ inbox(items) = {}

\* C27: completed() returns exactly the items whose status is Complete and
\* that are not trashed; an item with status Todo or Cancelled and a trashed
\* item are never returned.
C27_CompletedView ==
    /\ completed(items) =
         {id \in Stored(items) :
             items[id][1].status = COMPLETE /\ ~items[id][1].trashed}
    /\ \A id \in completed(items) :
          items[id][1].status \notin {TODO, CANCELLED} /\ ~items[id][1].trashed

\* a task that was completed is returned
C27_Witness ==
    /\ last.op = "status"
    /\ last.err = "none"
    /\ items[last.id][1].status = COMPLETE
    /\ ~items[last.id][1].trashed
    /\ completed(items) = {last.id}

\* the operations that set a destination
SchedulingOps ==
    {"destination", "today", "evening", "someday", "apply_when",
     "update_project"}

\* C23: the destination of an item changes only while its type is Task: on a
\* project every attempt to change it, through the destination setter,
\* today, evening, someday and the when-values applied by update_project, is
\* rejected and leaves the destination unchanged.
C23_DestinationOnlyOfTask ==
    [][\A id \in ItemIds :
          (/\ items[id] # None /\ items'[id] # None
           /\ items[id][1].type # TASK
           /\ last'.op \in SchedulingOps /\ last'.id = id)
             => items'[id][1].destination = items[id][1].destination]_vars

\* C29: applying a history Create whose entity type is Tag3, Area2 or
\* ChecklistItem3 succeeds and inserts an entity with the operation's id and
\* the payload's title into the store of its kind, and adds nothing to the
\* task store.
C29_KindCreateStored ==
    [][(/\ last'.op = "update"
        /\ last'.applied # None
        /\ last'.applied[1].type = UpdateType_NEW
        /\ last'.applied[1].entity \in {TAG_3, AREA_2, CHECKLIST_ITEM_3})
          => /\ last'.err = "none"
             /\ items' = items
             /\ last'.applied[1].entity = TAG_3
                   => /\ tags'[last'.applied[1].id] # None
                      /\ tags'[last'.applied[1].id][1].uuid =
                            last'.applied[1].id
                      /\ tags'[last'.applied[1].id][1].title =
                            last'.applied[1].complete[1].title]_vars

\* the entity type written for each encoding operation
KindOf(op) ==
    CASE op = "tag_to_update" -> TAG_3
      [] op = "area_to_update" -> AREA_2
      [] OTHER -> CHECKLIST_ITEM_3

\* C30: the wire form of the update of a tag, an area or a checklist item is
\* a mapping with the entity's id as its only key, to a body with t = 0, e
\* the type tag of the kind, and p holding the title under tt, a tag's parent
\* under pn and a checklist item's parent task as a one-element list under ts.
C30_KindWireForm ==
    last.op \in {"tag_to_update", "area_to_update", "checklist_to_update"}
        => LET entity == last.arg[1]
               wire == last.sent[1]
               body == wire[entity.uuid]
           IN /\ DOMAIN wire = {entity.uuid}
              /\ body.t = 0
              /\ body.e = KindOf(last.op)
              /\ body.p.tt = entity.title
              /\ last.op = "tag_to_update" => body.p.pn = entity.parent
              /\ last.op = "checklist_to_update"
                    => body.p.ts = <<entity.task_uuid>>

\* a checklist item of the task P was encoded
C30_Witness ==
    /\ last.op = "checklist_to_update"
    /\ last.arg[1].task_uuid = "P"
    /\ last.sent[1]["K"].e = CHECKLIST_ITEM_3
    /\ last.sent[1]["K"].p.ts = <<"P">>

\* the non-trashed tasks whose tag list holds the id
TaggedWith(tag_uuid) ==
    {id \in Stored(items) :
        /\ ~items[id][1].trashed
        /\ items[id][1].type = TASK
        /\ \E i \in DOMAIN items[id][1].tags : items[id][1].tags[i] = tag_uuid}

\* C28 (as stated): when the tags have different titles, the query for the
\* title of a tag lists exactly the non-trashed tasks whose tag list holds
\* the id of that tag; a query for a title that matches no tag reports 'not
\* found'.
C28_TaggedItemsAsStated ==
    (last.op = "get_tagged_items" /\ last.err = "none")
        => /\ (\A g, h \in StoredTags(tags) :
                  g # h => tags[g][1].title # tags[h][1].title)
                 => \A g \in StoredTags(tags) :
                       tags[g][1].title = last.arg[1]
                          => /\ last.out[1].found
                             /\ last.out[1].tasks = TaggedWith(g)
           /\ (\A g \in StoredTags(tags) :
                  Lower(tags[g][1].title) # Lower(last.arg[1]))
                 => ~last.out[1].found

\* C28 (amended): when the titles of the tags differ in more than case, the
\* query for the title of a tag, in any case, lists exactly the non-trashed
\* tasks whose tag list holds the id of that tag; a query for a title that
\* matches no tag, compared without case, reports 'not found'.
C28_TaggedItems ==
    (last.op = "get_tagged_items" /\ last.err = "none")
        => /\ (\A g, h \in StoredTags(tags) :
                  g # h => Lower(tags[g][1].title) # Lower(tags[h][1].title))
                 => \A g \in StoredTags(tags) :
                       Lower(tags[g][1].title) = Lower(last.arg[1])
                          => /\ last.out[1].found
                             /\ last.out[1].tasks = TaggedWith(g)
           /\ (\A g \in StoredTags(tags) :
                  Lower(tags[g][1].title) # Lower(last.arg[1]))
                 => ~last.out[1].found

\* the tags Work and Personal, the task X tagged with Work only: the query
\* for Work lists it
C28_Witness ==
    /\ last.op = "get_tagged_items"
    /\ last.err = "none"
    /\ last.arg = Some("Work")
    /\ StoredTags(tags) = {"W", "P"}
    /\ tags["P"][1].title = "Personal"
    /\ items["X"] # None
    /\ items["X"][1].tags = <<"W">>
    /\ last.out[1].tasks = {"X"}

\* the calls that are mutation entry points of an item
MutationOps ==
    {"status", "destination", "project", "area", "delete", "restore",
     "as_project", "today", "evening", "someday"}

\* C38: a mutation of an entity that is rejected with an error leaves every
\* field of the entity unchanged, a project or area assignment that fails
\* part-way included.
C38_RejectedMutationChangesNothing ==
    [][\A id \in ItemIds :
          (/\ last'.op \in MutationOps /\ last'.id = id
           /\ last'.err # "none" /\ items[id] # None)
             => items'[id] = items[id]]_vars

\* C39: for an item created locally and changed through its status only,
\* the completion date is set exactly when the status is Complete or
\* Cancelled.
C39_CompletionDateIffClosed ==
    \A id \in Stored(items) :
        items[id][1].completion_date # NoDate
            <=> items[id][1].status \in {COMPLETE, CANCELLED}

\* an item that was closed and is reopened by todo()
C39_Witness ==
    /\ last.op = "status"
    /\ last.err = "none"
    /\ last.arg = Some(TODO)
    /\ items[last.id][1].status = TODO
    /\ items[last.id][1].completion_date = NoDate

\* C31: the id of an entity is assigned at its local creation or by the
\* history operation that created it and no mutation, commit or history
\* application changes it; every entry of a store is keyed by the id of the
\* entity it holds.
C31_IdFixedAndKeyed ==
    [][/\ \A id \in Stored(items') : items'[id][1].uuid = id
       /\ \A id \in StoredTags(tags') : tags'[id][1].uuid = id
       /\ \A id \in Stored(items) \cap Stored(items') :
             items'[id][1].uuid = items[id][1].uuid]_vars

\* an entity a history Create stored, after a history Edit changed it
C31_Witness ==
    /\ last.op = "update"
    /\ last.err = "none"
    /\ last.applied # None
    /\ last.applied[1].type = UpdateType_EDIT
    /\ items[last.applied[1].id] # None
    /\ items[last.applied[1].id][1].uuid = last.applied[1].id
    /\ items[last.applied[1].id][1].synced # None

C33_RefreshAfterRejectionSucceeds ==
    [][(/\ last.op = "commit"
        /\ last.cause = raise_on_4xx_5xx.cause
        /\ last'.op = "update"
        /\ last'.cause # request_error.cause)
          => last'.err = "none"]_vars

\* C35: update() is all-or-nothing: when it fails, in the fetch or while
\* applying an operation of the batch, the cursor keeps its value and both
\* stores are as they were before the call.
C35_FailedUpdateChangesNothing ==
    [][(last'.op = "update" /\ last'.err # "none")
          => /\ offset' = offset
             /\ items' = items
             /\ tags' = tags]_vars

\* C36: applying a stream in which every Edit or Delete of an id comes after
\* a Create of that id, whatever the kind of the entity, never fails with a
\* not-found error. The stores show the Creates applied before: the formula
\* takes the Edits and Deletes of an id that a store holds.
C36_EditAfterCreateIsFound ==
    [][(/\ last'.op = "update"
        /\ last'.applied # None
        /\ last'.applied[1].type \in {UpdateType_EDIT, UpdateType_DELETE}
        /\ last'.n = 1
        /\ \/ items[last'.applied[1].id] # None
           \/ tags[last'.applied[1].id] # None)
          => last'.err # "ValueError: todo not found"]_vars

\* C37: when update_task or update_project returns an error message for one
\* of its arguments and sends no commit request, the entity it resolved has
\* the same local field values as before the call.
C37_ArgumentErrorChangesNothing ==
    [][(/\ last'.op = "update_project"
        /\ last'.sent = None
        /\ last'.err \in {"ValueError: Invalid 'when' value",
                          "ValueError: destination can only be changed for a task"})
          => items'[last'.id] = items[last'.id]]_vars

\* C34: for every tool that sends commit requests, each request's ancestor
\* index is the head index the previous successful request of the tool
\* returned, and when the tool returns the cursor equals the last head index
\* the server returned.
C34_ToolKeepsCursorAtHead ==
    (/\ last.op \in {"create_tag", "create_task"}
     /\ last.out # None)
       => /\ \A i \in 2..Len(last.out[1]) :
                last.out[1][i].ancestor = last.out[1][i - 1].server_head_index
          /\ last.err = "none"
               => offset = last.out[1][Len(last.out[1])].server_head_index

====
